---- MODULE Spec2Model ----
(***************************************************************************)
(* The cart of simple-marketplace-ts: the reducer of CartProvider.tsx, the *)
(* derived values computed by useCartContext on every render, and the      *)
(* static product catalog.                                                 *)
(*                                                                         *)
(* A sku is a sequence of one-character strings, so that sku.slice(-4) and *)
(* Number(...) are computed and not assumed.  Prices are integer cents.    *)
(* An action is a record with a "type" field and an optional "payload"     *)
(* field, as ReducerAction declares it.                                    *)
(***************************************************************************)
EXTENDS Integers, Sequences, FiniteSets, TLC

\* Cap on the qty an ADD may increment from (keeps the counter finite).
MaxQty == 3

\* Cap on the number of INCREMENTs, and of DECREMENTs, sent to the Counter.
MaxPresses == 3

----------------------------------------------------------------------------
\* Strings as character sequences

Digits == <<"0", "1", "2", "3", "4", "5", "6", "7", "8", "9">>

IsDigit(c) == \E i \in 1..Len(Digits) : Digits[i] = c

DigitVal(c) == (CHOOSE i \in 1..Len(Digits) : Digits[i] = c) - 1

\* A JavaScript number that may be NaN.
NaN == [isNaN |-> TRUE]
Num(n) == [isNaN |-> FALSE, value |-> n]

\* String.prototype.slice(-4): the last 4 characters, the whole string when
\* it is shorter than 4.
SliceLast4(s) == IF Len(s) <= 4 THEN s ELSE SubSeq(s, Len(s) - 3, Len(s))

RECURSIVE DecimalValue(_)
DecimalValue(s) ==
    IF s = <<>> THEN 0
    ELSE 10 * DecimalValue(SubSeq(s, 1, Len(s) - 1)) + DigitVal(s[Len(s)])

\* Number(string) on strings over letters and decimal digits: the empty
\* string is 0, a string of decimal digits is its value, any string with a
\* letter in it is NaN.  (The skus of the model hold no whitespace, sign,
\* ".", nor a digit followed by "e" or "x", the other forms Number parses.)
Number(s) ==
    IF \A i \in 1..Len(s) : IsDigit(s[i]) THEN Num(DecimalValue(s)) ELSE NaN

\* x - y on numbers: NaN when either operand is NaN.
Minus(x, y) == IF x.isNaN \/ y.isNaN THEN NaN ELSE Num(x.value - y.value)

----------------------------------------------------------------------------
\* The catalog (ProductsProvider)

item0001 == <<"i", "t", "e", "m", "0", "0", "0", "1">>
item0002 == <<"i", "t", "e", "m", "0", "0", "0", "2">>
item0003 == <<"i", "t", "e", "m", "0", "0", "0", "3">>

\* The catalog with the second entry pasted over the third.
initState_Pasted ==
    << [sku |-> item0001, name |-> "Widget",         price |-> 999],
       [sku |-> item0002, name |-> "Premium Widget", price |-> 1999],
       [sku |-> item0002, name |-> "Premium Widget", price |-> 1999] >>

initState ==
    << [sku |-> item0001, name |-> "Widget",         price |-> 999],
       [sku |-> item0002, name |-> "Premium Widget", price |-> 1999],
       [sku |-> item0003, name |-> "Deluxe Widget",  price |-> 2999] >>

----------------------------------------------------------------------------
\* The cart reducer (CartProvider)

initCartState == [cart |-> <<>>]

REDUCER_ACTION_TYPE ==
    [ADD |-> "ADD", REMOVE |-> "REMOVE", QUANTITY |-> "QUANTITY",
     SUBMIT |-> "SUBMIT"]

\* `!action.payload`
PayloadMissing(action) == "payload" \notin DOMAIN action

\* Array.prototype.find with the predicate item.sku === sku: the index of the
\* first match, 0 when find returns undefined.
FindIndex(arr, sku) ==
    IF \E i \in 1..Len(arr) : arr[i].sku = sku
    THEN CHOOSE i \in 1..Len(arr) :
            /\ arr[i].sku = sku
            /\ \A j \in 1..(i - 1) : arr[j].sku # sku
    ELSE 0

\* A reducer call either returns a state or throws an Error with a message.
Return(s) == [state |-> s]
Throw(message) == [error |-> message]
Threw(r) == "error" \in DOMAIN r

\* The messages of the thrown Errors, by the kind of failure they signal.
ValidationError ==
    {"action.payload missing in ADD action",
     "action.payload missing in REMOVE action",
     "action.payload missing in QUANTITY action"}
NotFoundError == {"Item must exist in order to update quantity"}
UnrecognizedActionError == {"Unidentified reducer action type"}

\* ReducerAdd with the increment lost: the line is re-added with qty 1.
ReducerAdd_QtyOne(state, action) ==
    IF PayloadMissing(action)
    THEN Throw("action.payload missing in ADD action")
    ELSE LET sku == action.payload.sku
             NotSku(item) == item.sku # sku
         IN  Return([state EXCEPT !.cart =
                 SelectSeq(state.cart, NotSku) \o
                 << [sku |-> sku, name |-> action.payload.name,
                     price |-> action.payload.price, qty |-> 1] >>])

\* ReducerAdd appending to state.cart instead of filteredCart.
ReducerAdd_NoFilter(state, action) ==
    IF PayloadMissing(action)
    THEN Throw("action.payload missing in ADD action")
    ELSE LET sku == action.payload.sku
             itemExists == FindIndex(state.cart, sku)
             qty == IF itemExists # 0 THEN state.cart[itemExists].qty + 1 ELSE 1
         IN  Return([state EXCEPT !.cart =
                 state.cart \o
                 << [sku |-> sku, name |-> action.payload.name,
                     price |-> action.payload.price, qty |-> qty] >>])

\* ReducerAdd spreading the existing line, { ...itemExists, qty }, so that an
\* existing line keeps its name and price.
ReducerAdd_KeepsLine(state, action) ==
    IF PayloadMissing(action)
    THEN Throw("action.payload missing in ADD action")
    ELSE LET sku == action.payload.sku
             NotSku(item) == item.sku # sku
             itemExists == FindIndex(state.cart, sku)
             line == IF itemExists # 0
                     THEN [state.cart[itemExists] EXCEPT !.qty = @ + 1]
                     ELSE [sku |-> sku, name |-> action.payload.name,
                           price |-> action.payload.price, qty |-> 1]
         IN  Return([state EXCEPT !.cart =
                 SelectSeq(state.cart, NotSku) \o <<line>>])

ReducerAdd(state, action) ==
    IF PayloadMissing(action)
    THEN Throw("action.payload missing in ADD action")
    ELSE LET sku   == action.payload.sku
             name  == action.payload.name
             price == action.payload.price
             NotSku(item) == item.sku # sku
             filteredCart == SelectSeq(state.cart, NotSku)
             itemExists == FindIndex(state.cart, sku)
             qty == IF itemExists # 0 THEN state.cart[itemExists].qty + 1 ELSE 1
         IN  Return([state EXCEPT !.cart =
                 filteredCart \o
                 << [sku |-> sku, name |-> name, price |-> price, qty |-> qty] >>])

\* ReducerRemove insisting, as QUANTITY does, that the line exists.
ReducerRemove_MustExist(state, action) ==
    IF PayloadMissing(action)
    THEN Throw("action.payload missing in REMOVE action")
    ELSE LET sku == action.payload.sku
             NotSku(item) == item.sku # sku
         IN  IF FindIndex(state.cart, sku) = 0
             THEN Throw("Item must exist in order to update quantity")
             ELSE Return([state EXCEPT !.cart = SelectSeq(state.cart, NotSku)])

\* ReducerRemove filtering with === : only the named line is kept.
ReducerRemove_KeepsMatch(state, action) ==
    IF PayloadMissing(action)
    THEN Throw("action.payload missing in REMOVE action")
    ELSE LET sku == action.payload.sku
             IsSku(item) == item.sku = sku
         IN  Return([state EXCEPT !.cart = SelectSeq(state.cart, IsSku)])

ReducerRemove(state, action) ==
    IF PayloadMissing(action)
    THEN Throw("action.payload missing in REMOVE action")
    ELSE LET sku == action.payload.sku
             NotSku(item) == item.sku # sku
             filteredCart == SelectSeq(state.cart, NotSku)
         IN  Return([state EXCEPT !.cart = filteredCart])

\* ReducerQuantity inserting the line when it is not in the cart.
ReducerQuantity_Upsert(state, action) ==
    IF PayloadMissing(action)
    THEN Throw("action.payload missing in QUANTITY action")
    ELSE LET sku == action.payload.sku
             NotSku(item) == item.sku # sku
         IN  Return([state EXCEPT !.cart =
                 SelectSeq(state.cart, NotSku) \o <<action.payload>>])

\* ReducerQuantity looking the sku up before it checks the payload: with no
\* payload there is no sku to find.
ReducerQuantity_LookupFirst(state, action) ==
    IF PayloadMissing(action) \/ FindIndex(state.cart, action.payload.sku) = 0
    THEN Throw("Item must exist in order to update quantity")
    ELSE LET sku == action.payload.sku
             itemExists == FindIndex(state.cart, sku)
             NotSku(item) == item.sku # sku
         IN  Return([state EXCEPT !.cart =
                 SelectSeq(state.cart, NotSku) \o
                 << [state.cart[itemExists] EXCEPT !.qty = action.payload.qty] >>])

\* ReducerQuantity storing the payload as the updated line, name and price
\* included.
ReducerQuantity_PayloadLine(state, action) ==
    IF PayloadMissing(action)
    THEN Throw("action.payload missing in QUANTITY action")
    ELSE LET sku == action.payload.sku
             NotSku(item) == item.sku # sku
         IN  IF FindIndex(state.cart, sku) = 0
             THEN Throw("Item must exist in order to update quantity")
             ELSE Return([state EXCEPT !.cart =
                      SelectSeq(state.cart, NotSku) \o <<action.payload>>])

\* ReducerQuantity updating the line where it stands (state.cart.map).
ReducerQuantity_InPlace(state, action) ==
    IF PayloadMissing(action)
    THEN Throw("action.payload missing in QUANTITY action")
    ELSE LET sku == action.payload.sku
             itemExists == FindIndex(state.cart, sku)
         IN  IF itemExists = 0
             THEN Throw("Item must exist in order to update quantity")
             ELSE Return([state EXCEPT !.cart[itemExists].qty = action.payload.qty])

ReducerQuantity(state, action) ==
    IF PayloadMissing(action)
    THEN Throw("action.payload missing in QUANTITY action")
    ELSE LET sku == action.payload.sku
             qty == action.payload.qty
             itemExists == FindIndex(state.cart, sku)
         IN  IF itemExists = 0
             THEN Throw("Item must exist in order to update quantity")
             ELSE LET updatedItem == [state.cart[itemExists] EXCEPT !.qty = qty]
                      NotSku(item) == item.sku # sku
                      filteredCart == SelectSeq(state.cart, NotSku)
                  IN  Return([state EXCEPT !.cart = filteredCart \o <<updatedItem>>])

\* ReducerSubmit with the payload check of the other cases.
ReducerSubmit_NeedsPayload(state, action) ==
    IF PayloadMissing(action)
    THEN Throw("action.payload missing in SUBMIT action")
    ELSE Return([state EXCEPT !.cart = <<>>])

ReducerSubmit(state, action) == Return([state EXCEPT !.cart = <<>>])

\* The default case returning the state, as reducers commonly do.
ReducerDefault_ReturnsState(state, action) == Return(state)

ReducerDefault(state, action) == Throw("Unidentified reducer action type")

reducer(state, action) ==
    CASE action.type = REDUCER_ACTION_TYPE.ADD      -> ReducerAdd(state, action)
      [] action.type = REDUCER_ACTION_TYPE.REMOVE   -> ReducerRemove(state, action)
      [] action.type = REDUCER_ACTION_TYPE.QUANTITY -> ReducerQuantity(state, action)
      [] action.type = REDUCER_ACTION_TYPE.SUBMIT   -> ReducerSubmit(state, action)
      [] OTHER                                      -> ReducerDefault(state, action)

----------------------------------------------------------------------------
\* The derived values of useCartContext

\* state.cart.reduce((previousValue, cartItem) => previousValue + cartItem.qty, 0)
RECURSIVE ReduceQty(_, _)
ReduceQty(arr, previousValue) ==
    IF arr = <<>> THEN previousValue
    ELSE ReduceQty(Tail(arr), previousValue + Head(arr).qty)

\* totalItems counting the lines instead of adding their qty.
totalItems_CountsLines(state) == Len(state.cart)

totalItems(state) == ReduceQty(state.cart, 0)

\* state.cart.reduce((previousValue, cartItem) =>
\*     previousValue + (cartItem.qty * cartItem.price), 0), in cents
RECURSIVE ReducePrice(_, _)
ReducePrice(arr, previousValue) ==
    IF arr = <<>> THEN previousValue
    ELSE ReducePrice(Tail(arr), previousValue + (Head(arr).qty * Head(arr).price))

\* The integer part with en-US grouping: 1234567 is "1,234,567".
RECURSIVE Grouped(_)
Grouped(n) ==
    IF n < 1000 THEN ToString(n)
    ELSE LET r == n % 1000
             pad == IF r < 10 THEN "00" ELSE IF r < 100 THEN "0" ELSE ""
         IN  Grouped(n \div 1000) \o "," \o pad \o ToString(r)

\* new Intl.NumberFormat('en-US', { style: 'currency', currency: 'USD' }).format
\* of an amount given in cents.
FormatUSD(cents) ==
    LET abs  == IF cents < 0 THEN 0 - cents ELSE cents
        frac == abs % 100
    IN  (IF cents < 0 THEN "-" ELSE "") \o "$" \o Grouped(abs \div 100) \o "."
        \o (IF frac < 10 THEN "0" ELSE "") \o ToString(frac)

\* totalPrice adding the prices of the lines without their qty.
totalPrice_IgnoresQty(state) ==
    LET unit == [i \in 1..Len(state.cart) |-> [state.cart[i] EXCEPT !.qty = 1]]
    IN  FormatUSD(ReducePrice(unit, 0))

totalPrice(state) == FormatUSD(ReducePrice(state.cart, 0))

\* The comparator handed to sort: Number(a.sku.slice(-4)) - Number(b.sku.slice(-4))
CompareFn(a, b) ==
    LET itemA == Number(SliceLast4(a.sku))
        itemB == Number(SliceLast4(b.sku))
    IN  Minus(itemA, itemB)

\* SortCompare of Array.prototype.sort: a NaN from the comparator counts as 0.
SortCompare(a, b) ==
    LET v == CompareFn(a, b) IN IF v.isNaN THEN 0 ELSE v.value

\* ECMAScript's "consistent comparator" over the elements of arr.  A
\* difference of numbers orders them consistently; an element whose key is
\* NaN compares equal to every other, which is consistent only when all the
\* elements compare equal to each other.
ConsistentComparator(arr) ==
    LET I == 1..Len(arr)
    IN  \/ \A i \in I : ~Number(SliceLast4(arr[i].sku)).isNaN
        \/ \A i, j \in I : SortCompare(arr[i], arr[j]) = 0

\* InsertSorted placing x in front of the elements it compares equal to: an
\* unstable sort.
InsertSorted_BeforeTies(sorted, x) ==
    LET after == {i \in 1..Len(sorted) : SortCompare(sorted[i], x) >= 0}
        pos   == IF after = {} THEN Len(sorted) + 1
                 ELSE CHOOSE i \in after : \A j \in after : i <= j
    IN  SubSeq(sorted, 1, pos - 1) \o <<x>> \o SubSeq(sorted, pos, Len(sorted))

\* x placed behind every element of the sorted array that does not compare
\* greater than it.
InsertSorted(sorted, x) ==
    LET after == {i \in 1..Len(sorted) : SortCompare(sorted[i], x) > 0}
        pos   == IF after = {} THEN Len(sorted) + 1
                 ELSE CHOOSE i \in after : \A j \in after : i <= j
    IN  SubSeq(sorted, 1, pos - 1) \o <<x>> \o SubSeq(sorted, pos, Len(sorted))

RECURSIVE StableSortInto(_, _)
StableSortInto(sorted, arr) ==
    IF arr = <<>> THEN sorted
    ELSE StableSortInto(InsertSorted(sorted, Head(arr)), Tail(arr))

StableSort(arr) == StableSortInto(<<>>, arr)

Reorderings(arr) ==
    LET I == 1..Len(arr)
    IN  { [i \in I |-> arr[p[i]]] :
            p \in {q \in [I -> I] : \A i, j \in I : q[i] = q[j] => i = j} }

\* state.cart.reverse() in the place of the sort: the array turned around in
\* place on every render.
SortOutcomes_Reverse(arr) ==
    {[i \in 1..Len(arr) |-> arr[Len(arr) + 1 - i]]}

\* The orders Array.prototype.sort may leave arr in: the stable sorted order
\* when the comparator is consistent, an implementation-defined order of the
\* same elements when it is not.
SortOutcomes(arr) ==
    IF ConsistentComparator(arr) THEN {StableSort(arr)} ELSE Reorderings(arr)

----------------------------------------------------------------------------
\* The Counter widget and its reducer

counterInitState == [count |-> 0, text |-> ""]

\* const enum REDUCER_ACTION_TYPE { INCREMENT, DECREMENT, NEW_INPUT }
COUNTER_ACTION_TYPE == [INCREMENT |-> 0, DECREMENT |-> 1, NEW_INPUT |-> 2]

\* The Counter's reducer with a count that stops at 0.
counterReducer_ClampsAtZero(cstate, action) ==
    CASE action.type = COUNTER_ACTION_TYPE.DECREMENT ->
            Return([cstate EXCEPT !.count = IF @ > 0 THEN @ - 1 ELSE 0])
      [] action.type = COUNTER_ACTION_TYPE.INCREMENT ->
            Return([cstate EXCEPT !.count = @ + 1])
      [] action.type = COUNTER_ACTION_TYPE.NEW_INPUT ->
            Return([cstate EXCEPT !.text =
                IF PayloadMissing(action) THEN "" ELSE action.payload])
      [] OTHER -> Throw("")

\* action.payload ?? '' : the payload, '' when it is undefined.
counterReducer(cstate, action) ==
    CASE action.type = COUNTER_ACTION_TYPE.DECREMENT ->
            Return([cstate EXCEPT !.count = @ - 1])
      [] action.type = COUNTER_ACTION_TYPE.INCREMENT ->
            Return([cstate EXCEPT !.count = @ + 1])
      [] action.type = COUNTER_ACTION_TYPE.NEW_INPUT ->
            Return([cstate EXCEPT !.text =
                IF PayloadMissing(action) THEN "" ELSE action.payload])
      [] OTHER -> Throw("")

----------------------------------------------------------------------------
\* The state machine

VARIABLES
    state,  \* the reducer state of useReducer: [cart |-> array of lines]
    prev,   \* the value of state before the last operation
    last,   \* the last operation: a dispatch with its action, or a read
            \* (again: the operation before it was a read as well)
    ret,    \* what the last operation produced: the reducer's return or
            \* throw, or the derived values handed to the context
    run,    \* [n |-> k, sku |-> s] while the dispatches so far are exactly
            \* k ADDs carrying sku s; [n |-> 0] before any dispatch;
            \* [n |-> -1] afterwards
    fold,   \* the reducer folded over the actions dispatched so far, from
            \* initCartState (kept by SpecLog only)
    products, \* the catalog ProductsProvider hands to its context
    counter,  \* the reducer state of the Counter: [count, text]
    counterHist \* of the Counter: the numbers of INCREMENTs and DECREMENTs
              \* dispatched, the last action dispatched (<<>> before any)
              \* and the state before it

vars == <<state, prev, last, ret, run, fold, products, counter, counterHist>>

\* What a caller may put in a payload: a catalog item with a qty of the
\* caller's choice (the product view sends qty 1, which ADD ignores), or the
\* sku of a catalog item under another name and price.
Skus == {initState[i].sku : i \in 1..Len(initState)}
Qtys == {0, 2}

Product(sku) == initState[CHOOSE i \in 1..Len(initState) : initState[i].sku = sku]

Renamed == [sku |-> item0001, name |-> "Gadget", price |-> 100000, qty |-> 2]

Payloads ==
    { [sku |-> sku, name |-> Product(sku).name, price |-> Product(sku).price,
       qty |-> qty] : sku \in Skus, qty \in Qtys }
    \cup {Renamed}

Types == {"ADD", "REMOVE", "QUANTITY", "SUBMIT", "UNKNOWN"}

\* Every type without a payload; the types that read their payload with
\* every payload; the types that do not with two of them.
Actions ==
    { [type |-> t] : t \in Types }
    \cup { [type |-> t, payload |-> p] :
             t \in {"ADD", "REMOVE", "QUANTITY"}, p \in Payloads }
    \cup { [type |-> t, payload |-> p] :
             t \in {"SUBMIT", "UNKNOWN"},
             p \in {Renamed, [Renamed EXCEPT !.sku = item0002, !.qty = 0]} }

\* The derived values one render of useCartContext returns, given the order
\* the sort left the array in.
Derived(s, sorted) ==
    [totalItems |-> totalItems(s), totalPrice |-> totalPrice(s), cart |-> sorted]

Init ==
    /\ state = initCartState
    /\ prev = initCartState
    /\ last = [op |-> "init"]
    /\ ret = Derived(initCartState, <<>>)
    /\ run = [n |-> 0]
    /\ fold = initCartState
    /\ products = initState
    /\ counter = counterInitState
    /\ counterHist = [incs |-> 0, decs |-> 0, last |-> <<>>,
                      prev |-> counterInitState]

IsAdd(action) ==
    action.type = REDUCER_ACTION_TYPE.ADD /\ ~PayloadMissing(action)

\* An ADD is not dispatched for a line that already holds MaxQty.
WithinCap(action) ==
    IsAdd(action) =>
        LET i == FindIndex(state.cart, action.payload.sku)
        IN  i # 0 => state.cart[i].qty < MaxQty

\* dispatch(action): the reducer runs to completion on the current state; a
\* throw leaves the state as it was.
DispatchAction(action) ==
    /\ WithinCap(action)
    /\ LET r == reducer(state, action)
       IN  /\ state' = IF Threw(r) THEN state ELSE r.state
           /\ ret' = r
    /\ prev' = state
    /\ last' = [op |-> "dispatch", action |-> action]
    /\ run' = IF /\ run.n >= 0
                 /\ IsAdd(action)
                 /\ (run.n > 0 => run.sku = action.payload.sku)
              THEN [n |-> run.n + 1, sku |-> action.payload.sku]
              ELSE [n |-> -1]
    /\ UNCHANGED <<products, counter, counterHist>>

Dispatch ==
    \E action \in Actions : DispatchAction(action) /\ UNCHANGED fold

\* One render of the provider: useCartContext computes the derived values
\* from the current state; state.cart.sort(...) sorts the stored array in
\* place and returns that same array.
Read ==
    \E sorted \in SortOutcomes(state.cart) :
        /\ ret' = Derived(state, sorted)
        /\ state' = [state EXCEPT !.cart = sorted]
        /\ prev' = state
        /\ last' = [op |-> "read", again |-> (last.op = "read")]
        /\ UNCHANGED <<run, fold, products, counter, counterHist>>

Next == Dispatch \/ Read

Spec == Init /\ [][Next]_vars

\* The same cart driven with skus whose sort keys collide: "sale0001" and
\* "item0001" both end in "0001".
sale0001 == <<"s", "a", "l", "e", "0", "0", "0", "1">>

KeyPayloads ==
    { [sku |-> initState[i].sku, name |-> initState[i].name,
       price |-> initState[i].price, qty |-> 2] : i \in 1..Len(initState) }
    \cup { [sku |-> sale0001, name |-> "Widget on sale", price |-> 499, qty |-> 2] }

KeyActions ==
    { [type |-> t, payload |-> p] :
        t \in {"ADD", "REMOVE", "QUANTITY"}, p \in KeyPayloads }
    \cup { [type |-> "SUBMIT"] }

DispatchKeys ==
    \E action \in KeyActions : DispatchAction(action) /\ UNCHANGED fold

NextKeys == DispatchKeys \/ Read

SpecKeys == Init /\ [][NextKeys]_vars

\* The cart driven with catalog items, UNKNOWN and payload-less actions,
\* keeping beside it the reducer folded over the dispatched actions: a
\* throwing action contributes nothing to the fold.
LogActions ==
    { [type |-> t, payload |-> p] :
        t \in {"ADD", "REMOVE", "QUANTITY"},
        p \in {q \in Payloads : q.qty = 2 /\ q # Renamed} }
    \cup { [type |-> t] : t \in {"SUBMIT", "QUANTITY", "UNKNOWN"} }

DispatchLog ==
    \E action \in LogActions :
        /\ DispatchAction(action)
        /\ fold' = LET r == reducer(fold, action)
                   IN  IF Threw(r) THEN fold ELSE r.state

NextLog == DispatchLog \/ Read

SpecLog == Init /\ [][NextLog]_vars

\* The Counter on its own: the two buttons, the input with the texts a user
\* may have typed, and a NEW_INPUT without payload.
Texts == {"", "a", "ab"}

CounterActions ==
    { [type |-> COUNTER_ACTION_TYPE.INCREMENT],
      [type |-> COUNTER_ACTION_TYPE.DECREMENT],
      [type |-> COUNTER_ACTION_TYPE.NEW_INPUT] }
    \cup { [type |-> COUNTER_ACTION_TYPE.NEW_INPUT, payload |-> t] : t \in Texts }

CounterDispatch ==
    \E action \in CounterActions :
        /\ action.type = COUNTER_ACTION_TYPE.INCREMENT
              => counterHist.incs < MaxPresses
        /\ action.type = COUNTER_ACTION_TYPE.DECREMENT
              => counterHist.decs < MaxPresses
        /\ LET r == counterReducer(counter, action)
           IN  counter' = IF Threw(r) THEN counter ELSE r.state
        /\ counterHist' =
              [incs |-> counterHist.incs
                        + (IF action.type = COUNTER_ACTION_TYPE.INCREMENT
                           THEN 1 ELSE 0),
               decs |-> counterHist.decs
                        + (IF action.type = COUNTER_ACTION_TYPE.DECREMENT
                           THEN 1 ELSE 0),
               last |-> <<action>>,
               prev |-> counter]
        /\ UNCHANGED <<state, prev, last, ret, run, fold, products>>

NextCounter == CounterDispatch

SpecCounter == Init /\ [][NextCounter]_vars

----------------------------------------------------------------------------
\* Properties

Dispatched == last.op = "dispatch"
DispatchedType(t) == Dispatched /\ last.action.type = t
WithPayload == Dispatched /\ "payload" \in DOMAIN last.action
InCart(cart, sku) == \E i \in 1..Len(cart) : cart[i].sku = sku

\* C1: from the empty cart, after n >= 1 ADD actions that all carry the same
\* sku and no other action, the cart holds exactly one line for that sku and
\* its qty is n.
C1_SameSkuAdds ==
    run.n >= 1 =>
        /\ Cardinality({i \in 1..Len(state.cart) : state.cart[i].sku = run.sku}) = 1
        /\ \A i \in 1..Len(state.cart) :
              state.cart[i].sku = run.sku => state.cart[i].qty = run.n

C1_Witness == run.n >= 2 /\ Dispatched /\ InCart(prev.cart, run.sku)

\* C2: in every state reachable from the empty cart the cart holds at most
\* one line per sku.
C2_OneLinePerSku ==
    \A i, j \in 1..Len(state.cart) :
        state.cart[i].sku = state.cart[j].sku => i = j

C2_Witness ==
    /\ DispatchedType("ADD") /\ WithPayload
    /\ InCart(prev.cart, last.action.payload.sku)
    /\ Len(prev.cart) >= 2
    /\ Len(state.cart) = Len(prev.cart)

\* C3: in every reachable state, QUANTITY carrying any integer qty, every
\* line of the cart has qty >= 1.
C3_QtyAtLeastOne ==
    \A i \in 1..Len(state.cart) : state.cart[i].qty >= 1

\* C4: reading the derived values leaves the stored line collection, the
\* order of its lines included, as it was before the read.
C4_ReadLeavesState ==
    last.op = "read" => state = prev

\* C5: a QUANTITY whose sku matches no line fails with NotFoundError and
\* leaves the cart state as it was.
C5_QuantityAbsentSku ==
    (DispatchedType("QUANTITY") /\ WithPayload
        /\ ~InCart(prev.cart, last.action.payload.sku))
    => /\ Threw(ret)
       /\ ret.error \in NotFoundError
       /\ state = prev

C5_Witness ==
    /\ DispatchedType("QUANTITY") /\ WithPayload
    /\ ~InCart(prev.cart, last.action.payload.sku)
    /\ Len(prev.cart) >= 1
    /\ Threw(ret)

\* C6: a REMOVE whose sku matches no line does not fail and leaves the cart
\* with the same lines in the same order.
C6_RemoveAbsentSku ==
    (DispatchedType("REMOVE") /\ WithPayload
        /\ ~InCart(prev.cart, last.action.payload.sku))
    => /\ ~Threw(ret)
       /\ ret.state.cart = prev.cart
       /\ state = prev

C6_Witness ==
    /\ DispatchedType("REMOVE") /\ WithPayload
    /\ ~InCart(prev.cart, last.action.payload.sku)
    /\ Len(prev.cart) >= 2
    /\ ~Threw(ret)

\* C7: SUBMIT never fails, with or without a payload, and leaves an empty
\* line collection whatever the cart held.
C7_SubmitEmpties ==
    DispatchedType("SUBMIT") =>
        /\ ~Threw(ret)
        /\ ret.state.cart = <<>>
        /\ state.cart = <<>>

C7_Witness ==
    /\ DispatchedType("SUBMIT") /\ ~WithPayload
    /\ Len(prev.cart) >= 2
    /\ state.cart = <<>>

\* C8: an action whose type is none of ADD, REMOVE, QUANTITY, SUBMIT fails
\* with UnrecognizedActionError, whatever its payload, and leaves the cart
\* state as it was.
C8_UnknownType ==
    (Dispatched /\ last.action.type \notin {"ADD", "REMOVE", "QUANTITY", "SUBMIT"})
    => /\ Threw(ret)
       /\ ret.error \in UnrecognizedActionError
       /\ state = prev

C8_Witness ==
    /\ DispatchedType("UNKNOWN") /\ WithPayload
    /\ Len(prev.cart) >= 1
    /\ Threw(ret)

\* C9: an ADD, REMOVE or QUANTITY without a payload fails with
\* ValidationError (for QUANTITY too: the payload check comes before the
\* lookup) and leaves the cart state as it was.
C9_MissingPayload ==
    (Dispatched /\ last.action.type \in {"ADD", "REMOVE", "QUANTITY"}
        /\ ~WithPayload)
    => /\ Threw(ret)
       /\ ret.error \in ValidationError
       /\ state = prev

C9_Witness ==
    /\ DispatchedType("QUANTITY") /\ ~WithPayload
    /\ Len(prev.cart) >= 1
    /\ Threw(ret)
    /\ ret.error \in ValidationError

\* The sum of qty over the lines of arr, taken from the last line backwards.
RECURSIVE SumQty(_)
SumQty(arr) ==
    IF Len(arr) = 0 THEN 0
    ELSE arr[Len(arr)].qty + SumQty(SubSeq(arr, 1, Len(arr) - 1))

SkuQty(arr) == [i \in 1..Len(arr) |-> <<arr[i].sku, arr[i].qty>>]

\* C10: totalItems is the sum of qty over all lines of the cart, 0 for the
\* empty cart, and 3 for the cart [{item0001, qty 2}, {item0002, qty 1}].
C10_TotalItems ==
    /\ totalItems(state) = SumQty(state.cart)
    /\ state.cart = <<>> => totalItems(state) = 0
    /\ last.op = "read" =>
          /\ ret.totalItems = SumQty(prev.cart)
          /\ SkuQty(prev.cart) = << <<item0001, 2>>, <<item0002, 1>> >>
                => ret.totalItems = 3

C10_Witness ==
    /\ last.op = "read"
    /\ SkuQty(prev.cart) = << <<item0001, 2>>, <<item0002, 1>> >>
    /\ ret.totalItems = 3

\* The sum of qty x price (in cents) over the lines of arr, taken from the
\* last line backwards.
RECURSIVE SumPrice(_)
SumPrice(arr) ==
    IF Len(arr) = 0 THEN 0
    ELSE (arr[Len(arr)].price * arr[Len(arr)].qty)
         + SumPrice(SubSeq(arr, 1, Len(arr) - 1))

SkuQtyPrice(arr) ==
    [i \in 1..Len(arr) |-> <<arr[i].sku, arr[i].qty, arr[i].price>>]

\* C11: totalPrice is the currency formatting of the sum over all lines of
\* qty x price (prices in cents): "$0.00" for the empty cart, "$39.97" for
\* item0001 x2 at 9.99 with item0002 x1 at 19.99, "$1,000.00" for one line
\* of qty 1 at 1000.00.
C11_TotalPrice ==
    /\ totalPrice(state) = FormatUSD(SumPrice(state.cart))
    /\ last.op = "read" =>
          /\ ret.totalPrice = FormatUSD(SumPrice(prev.cart))
          /\ prev.cart = <<>> => ret.totalPrice = "$0.00"
          /\ SkuQtyPrice(prev.cart) =
                << <<item0001, 2, 999>>, <<item0002, 1, 1999>> >>
                => ret.totalPrice = "$39.97"
          /\ SkuQtyPrice(prev.cart) = << <<item0001, 1, 100000>> >>
                => ret.totalPrice = "$1,000.00"

C11_Witness ==
    /\ last.op = "read"
    /\ SkuQtyPrice(prev.cart) = << <<item0001, 2, 999>>, <<item0002, 1, 1999>> >>
    /\ ret.totalPrice = "$39.97"

\* The integer the last 4 characters of a sku spell, digit by digit from the
\* right (the skus dispatched all end in 4 decimal digits).
SuffixValue(sku) ==
    LET d(k) == DigitVal(sku[Len(sku) - k])
    IN  d(0) + 10 * d(1) + 100 * d(2) + 1000 * d(3)

SkusOf(arr) == [i \in 1..Len(arr) |-> arr[i].sku]

PositionIn(arr, line) == CHOOSE i \in 1..Len(arr) : arr[i] = line

\* C12: displayOrder is a permutation of the cart's lines, ascending by the
\* integer value of the last 4 characters of the sku, lines with equal keys
\* in their original relative order; item0003, item0001, item0002 inserted
\* in that order are displayed as item0001, item0002, item0003.
C12_DisplayOrder ==
    last.op = "read" =>
        LET inp == prev.cart
            out == ret.cart
        IN  /\ Len(out) = Len(inp)
            /\ \A i \in 1..Len(inp) : \E j \in 1..Len(out) : out[j] = inp[i]
            /\ \A i, j \in 1..Len(out) :
                  i < j => SuffixValue(out[i].sku) <= SuffixValue(out[j].sku)
            /\ \A a, b \in 1..Len(inp) :
                  (a < b /\ SuffixValue(inp[a].sku) = SuffixValue(inp[b].sku))
                  => PositionIn(out, inp[a]) < PositionIn(out, inp[b])
            /\ SkusOf(inp) = <<item0003, item0001, item0002>>
                  => SkusOf(out) = <<item0001, item0002, item0003>>

C12_Witness ==
    /\ last.op = "read"
    /\ SkusOf(prev.cart) = <<item0002, sale0001, item0001>>
    /\ SkusOf(ret.cart) = <<sale0001, item0001, item0002>>

\* C13: reading totalItems, totalPrice and displayOrder twice with no
\* dispatch in between yields the same results on both reads.
C13_ReadTwice ==
    [][(last.op = "read" /\ last'.op = "read") => ret' = ret]_vars

C13_Witness ==
    /\ last.op = "read"
    /\ last.again
    /\ InCart(state.cart, item0001)
    /\ InCart(state.cart, sale0001)
    /\ InCart(state.cart, item0002)

\* C14: transitions apply one at a time in dispatch order: right after the
\* dispatch of a1..an the cart state is the reducer folded over a1..an from
\* the initial state.
C14_FoldInOrder ==
    Dispatched => state = fold

LineOf(cart, sku) == cart[CHOOSE i \in 1..Len(cart) : cart[i].sku = sku]

\* arr without its k-th element.
Without(arr, k) == SubSeq(arr, 1, k - 1) \o SubSeq(arr, k + 1, Len(arr))

\* The lines of before other than sku's are the lines of after other than
\* sku's, each unchanged.
OthersUnchanged(before, after, sku) ==
    /\ \A i \in 1..Len(before) :
          before[i].sku # sku => \E j \in 1..Len(after) : after[j] = before[i]
    /\ \A j \in 1..Len(after) :
          after[j].sku # sku => \E i \in 1..Len(before) : before[i] = after[j]

\* C17: an ADD with a payload leaves one line for the payload's sku, with
\* the payload's name and price and with qty = old qty + 1 when the sku was
\* in the cart, qty = 1 when it was not; the payload's qty is ignored and
\* every line with another sku is unchanged.
C17_AddEffect ==
    (DispatchedType("ADD") /\ WithPayload) =>
        LET p == last.action.payload
        IN  /\ ~Threw(ret)
            /\ Cardinality({i \in 1..Len(state.cart) : state.cart[i].sku = p.sku}) = 1
            /\ LineOf(state.cart, p.sku).name = p.name
            /\ LineOf(state.cart, p.sku).price = p.price
            /\ LineOf(state.cart, p.sku).qty =
                  IF InCart(prev.cart, p.sku)
                  THEN LineOf(prev.cart, p.sku).qty + 1
                  ELSE 1
            /\ OthersUnchanged(prev.cart, state.cart, p.sku)

C17_Witness ==
    /\ DispatchedType("ADD") /\ WithPayload
    /\ last.action.payload = Renamed
    /\ Len(prev.cart) >= 2
    /\ InCart(prev.cart, item0001)
    /\ LineOf(prev.cart, item0001).name = "Widget"
    /\ LineOf(prev.cart, item0001).qty = 2
    /\ LineOf(state.cart, item0001) =
          [sku |-> item0001, name |-> "Gadget", price |-> 100000, qty |-> 3]

\* C18: a QUANTITY on a sku in the cart sets that line's qty to the
\* payload's qty and nothing else: the line keeps its name and price, every
\* other line is unchanged and the set of skus is the same.
C18_QuantityEffect ==
    (DispatchedType("QUANTITY") /\ WithPayload
        /\ InCart(prev.cart, last.action.payload.sku))
    => LET p == last.action.payload
           old == LineOf(prev.cart, p.sku)
       IN  /\ ~Threw(ret)
           /\ Cardinality({i \in 1..Len(state.cart) : state.cart[i].sku = p.sku}) = 1
           /\ LineOf(state.cart, p.sku) =
                 [sku |-> p.sku, name |-> old.name, price |-> old.price,
                  qty |-> p.qty]
           /\ OthersUnchanged(prev.cart, state.cart, p.sku)
           /\ {state.cart[i].sku : i \in 1..Len(state.cart)}
                 = {prev.cart[i].sku : i \in 1..Len(prev.cart)}
           /\ Len(state.cart) = Len(prev.cart)

C18_Witness ==
    /\ DispatchedType("QUANTITY") /\ WithPayload
    /\ last.action.payload = Renamed
    /\ Len(prev.cart) >= 2
    /\ InCart(prev.cart, item0001)
    /\ LineOf(prev.cart, item0001).name = "Widget"
    /\ LineOf(prev.cart, item0001).qty = 1
    /\ LineOf(state.cart, item0001) =
          [sku |-> item0001, name |-> "Widget", price |-> 999, qty |-> 2]

\* C19: a REMOVE on a sku in the cart leaves no line for that sku, and every
\* other line unchanged and in its previous relative order.
C19_RemoveEffect ==
    (DispatchedType("REMOVE") /\ WithPayload
        /\ InCart(prev.cart, last.action.payload.sku))
    => /\ ~Threw(ret)
       /\ ~InCart(state.cart, last.action.payload.sku)
       /\ \E k \in 1..Len(prev.cart) :
             /\ prev.cart[k].sku = last.action.payload.sku
             /\ state.cart = Without(prev.cart, k)

C19_Witness ==
    /\ DispatchedType("REMOVE") /\ WithPayload
    /\ Len(prev.cart) = 3
    /\ prev.cart[2].sku = last.action.payload.sku
    /\ state.cart = <<prev.cart[1], prev.cart[3]>>

\* a and b have the same sort key.
Tied(a, b) == SuffixValue(a.sku) = SuffixValue(b.sku)

\* C20: an ADD or QUANTITY on a sku already in the cart moves its line to
\* the end of the stored collection, the other lines keeping their order, so
\* that the next read displays it behind every line with an equal sort key,
\* whichever of them was inserted first.
C20_TouchedLast ==
    (Dispatched /\ last.action.type \in {"ADD", "QUANTITY"} /\ WithPayload
        /\ InCart(prev.cart, last.action.payload.sku))
    => LET sku == last.action.payload.sku
           n == Len(state.cart)
       IN  /\ n = Len(prev.cart)
           /\ state.cart[n].sku = sku
           /\ \E k \in 1..n :
                 /\ prev.cart[k].sku = sku
                 /\ SubSeq(state.cart, 1, n - 1) = Without(prev.cart, k)
           /\ \A out \in SortOutcomes(state.cart) :
                 \A i \in 1..n :
                    (out[i].sku # sku /\ Tied(out[i], state.cart[n]))
                    => i < PositionIn(out, state.cart[n])

C20_Witness ==
    /\ DispatchedType("QUANTITY") /\ WithPayload
    /\ last.action.payload.sku = item0001
    /\ SkusOf(prev.cart) = <<item0001, item0002, sale0001>>
    /\ SkusOf(state.cart) = <<item0002, sale0001, item0001>>

CounterLastIs(t) ==
    counterHist.last # <<>> /\ counterHist.last[1].type = t

\* C21: in the Counter, from {count 0, text ''}, count is the number of
\* INCREMENTs minus the number of DECREMENTs dispatched (negative when there
\* were more DECREMENTs); INCREMENT and DECREMENT leave text as it was;
\* NEW_INPUT leaves count as it was and sets text to its payload, '' when
\* the payload is absent.
C21_Counter ==
    /\ counter.count = counterHist.incs - counterHist.decs
    /\ (CounterLastIs(0) \/ CounterLastIs(1))
          => counter.text = counterHist.prev.text
    /\ CounterLastIs(0) => counter.count = counterHist.prev.count + 1
    /\ CounterLastIs(1) => counter.count = counterHist.prev.count - 1
    /\ CounterLastIs(2) =>
          /\ counter.count = counterHist.prev.count
          /\ counter.text =
                IF "payload" \in DOMAIN counterHist.last[1]
                THEN counterHist.last[1].payload
                ELSE ""

C21_Witness ==
    /\ CounterLastIs(1)
    /\ counterHist.decs > counterHist.incs
    /\ counterHist.incs >= 1
    /\ counterHist.prev.count = 0 - 1
    /\ counter.count = 0 - 2
    /\ counter.text = "ab"

====
